---- MODULE Spec2Model ----
(***************************************************************************)
(* Model of the demo component App of cropperjs-react-wrapper: the React   *)
(* state of the component, its event handlers, its two scale effects and   *)
(* the asynchronous continuations of its handlers (canvas conversions,     *)
(* file reads, the download's fetch and blob steps).                       *)
(*                                                                         *)
(* Conventions.  An optional value (undefined / null in the source) is the *)
(* empty sequence, a present value v is <<v>>.  A number that the source   *)
(* writes as a quotient is the pair <<numerator, denominator>>.  Selection *)
(* coordinates are counted in tenths of a pixel, exportQuality in percent. *)
(***************************************************************************)
EXTENDS Integers, Sequences, FiniteSets, TLC

\* ---------------------------------------------------------------- bounds

\* Selection rectangles the pointer can produce: Rect(-MaxCoord) .. Rect(MaxCoord).
MaxCoord == 1
\* Largest number of preview conversions, and of file reads, in flight.
MaxPending == 2
\* Largest number of Crop Image conversions, and of downloads, in flight.
MaxExports == 1
\* Largest number of Zoom In clicks and of Zoom Out clicks.
MaxZoom == 1
\* Largest number of downloads that fail after their object URL was created.
MaxLeaks == 1

\* ------------------------------------------------------- program constants

GridDefault == 3
ExportQualityDefault == 92

Null == <<>>
Some(v) == <<v>>

Tabs == {"basic", "transform", "advanced", "actions"}
Presets == {"profile", "banner", "thumbnail"}
ExportFormats == {"png", "jpeg", "webp"}
RotateDegrees == {90, -90, 180}
ZoomDeltas == {10, -10}

NaN == <<0, 0>>
\* The <option> values of the Aspect Ratio select.
AspectRatioOptions == {<<16, 9>>, <<4, 3>>, <<1, 1>>, <<3, 4>>, <<9, 16>>, NaN}

\* Values typed or picked in the free-form inputs.
ThemeColorInputs == {"#3399ff", "#ff0000"}
GridInputs == {GridDefault, GridDefault + 1}
QualityInputs == {ExportQualityDefault, 50}

image1 == [kind |-> "asset", name |-> "image1"]
image2 == [kind |-> "asset", name |-> "image2"]
Files == {"fileA", "fileB"}
\* What the FileReader's onload handler can find in event.target.result.
ReadResults == {"string", "other"}

\* In tenths of a pixel: fractions below, at and above one half, either sign.
Rect(p) == [x |-> 7 * p, y |-> 0 - 5 * p, width |-> 30 + 6 * p, height |-> 40 - 14 * p]
SelectionRects == {Rect(p) : p \in (0 - MaxCoord)..MaxCoord}

\* ------------------------------------------------------------------ state

VARIABLES
    \* useState
    imgSrc, croppedImage, livePreview,
    canvasBackground, canvasDisabled,
    scaleX, scaleY,
    showShade, showGrid, showCrosshair, aspectRatio, themeColor,
    movable, resizable, zoomable,
    gridRows, gridColumns,
    exportFormat, exportQuality, cropData,
    activeTab,
    \* useRef: TRUE when .current is the element
    imageRef, selectionRef,
    \* the toolkit's elements
    image, selection,
    \* asynchronous work in flight
    pendingPreview, pendingResult, pendingReads, pendingDownload,
    \* the browser
    downloads, consoleErrors, unhandledRejections,
    \* object URLs created and not revoked, anchors appended to document.body
    \* and not removed
    objectURLs, bodyLinks,
    \* the user's choice: the source produced by the most recent user action
    \* that has produced one, and how many of the reads in flight are older
    chosenSrc

toggleVars == <<canvasBackground, canvasDisabled, showShade, showGrid, showCrosshair,
                movable, resizable, zoomable>>
styleVars == <<themeColor, gridRows, gridColumns>>
exportVars == <<exportFormat, exportQuality>>
flipVars == <<scaleX, scaleY>>
refVars == <<imageRef, selectionRef>>
outputVars == <<croppedImage, livePreview, cropData>>
asyncVars == <<pendingPreview, pendingResult, pendingReads, pendingDownload>>
resourceVars == <<objectURLs, bodyLinks>>
browserVars == <<downloads, consoleErrors, unhandledRejections, objectURLs, bodyLinks>>
sourceVars == <<imgSrc, chosenSrc>>

vars == <<imgSrc, croppedImage, livePreview, canvasBackground, canvasDisabled,
          scaleX, scaleY, showShade, showGrid, showCrosshair, aspectRatio,
          themeColor, movable, resizable, zoomable, gridRows, gridColumns,
          exportFormat, exportQuality, cropData, activeTab, imageRef,
          selectionRef, image, selection, pendingPreview, pendingResult,
          pendingReads, pendingDownload, downloads, consoleErrors,
          unhandledRejections, objectURLs, bodyLinks, chosenSrc>>

\* ---------------------------------------------------------------- helpers

\* Math.floor in the place of Math.round.
MathFloor(v) == v \div 10

\* Math.round on a value counted in tenths: the nearest integer, a half going up.
MathRound(v) == (v + 5) \div 10

\* The crop rectangle onCrop stores: each field of the selection rounded.
RoundRect(sel) ==
    [x |-> MathRound(sel.x), y |-> MathRound(sel.y),
     width |-> MathRound(sel.width), height |-> MathRound(sel.height)]

\* canvas.toDataURL(type, quality): the canvas content encoded as `type`;
\* PNG is lossless and ignores the quality.
ToDataURL(canvas, type, quality) ==
    [content |-> canvas, type |-> type,
     quality |-> IF type = "png" THEN 100 ELSE quality]

\* FileReader.readAsDataURL's string result for a file.
FileDataURL(f) == [kind |-> "data", name |-> f]

RemoveAt(s, i) == SubSeq(s, 1, i - 1) \o SubSeq(s, i + 1, Len(s))

\* ------------------------------------------------------------------- Init

Init ==
    /\ imgSrc = image1
    /\ croppedImage = Null
    /\ livePreview = Null
    /\ canvasBackground = TRUE
    /\ canvasDisabled = FALSE
    /\ scaleX = 1
    /\ scaleY = 1
    /\ showShade = FALSE
    /\ showGrid = TRUE
    /\ showCrosshair = TRUE
    /\ aspectRatio = Null
    /\ themeColor = "#3399ff"
    /\ movable = TRUE
    /\ resizable = TRUE
    /\ zoomable = TRUE
    /\ gridRows = GridDefault
    /\ gridColumns = GridDefault
    /\ exportFormat = "png"
    /\ exportQuality = ExportQualityDefault
    /\ cropData = Null
    /\ activeTab = "basic"
    /\ imageRef = FALSE
    /\ selectionRef = FALSE
    /\ image = [scaleX |-> 1, scaleY |-> 1, rotate |-> 0, zoomIn |-> 0, zoomOut |-> 0]
    /\ selection = Rect(0)
    /\ pendingPreview = <<>>
    /\ pendingResult = <<>>
    /\ pendingReads = <<>>
    /\ pendingDownload = <<>>
    /\ downloads = {}
    /\ consoleErrors = {}
    /\ unhandledRejections = {}
    /\ objectURLs = 0
    /\ bodyLinks = 0
    /\ chosenSrc = [src |-> image1, older |-> 0]

\* ---------------------------------------------------------------- effects

\* useEffect(..., [scaleX]): image.$scale(-1, scaleY), with the scaleY of the
\* render that scheduled it.  $scale(x, y) multiplies the image's scale.
EffectScaleX(img, sy) ==
    [img EXCEPT !.scaleX = @ * (0 - 1), !.scaleY = @ * sy]

\* useEffect(..., [scaleY]): image.$scale(scaleX, -1).
EffectScaleY(img, sx) ==
    [img EXCEPT !.scaleX = @ * sx, !.scaleY = @ * (0 - 1)]

\* The first commit: the refs are attached, then both effects run in order.
Mount ==
    /\ ~imageRef
    /\ imageRef' = TRUE
    /\ selectionRef' = TRUE
    /\ image' = EffectScaleY(EffectScaleX(image, scaleY), scaleX)
    /\ UNCHANGED <<toggleVars, styleVars, exportVars, flipVars, outputVars,
                   asyncVars, browserVars, sourceVars, aspectRatio, activeTab,
                   selection>>

\* ------------------------------------------------------------ tabs, forms

\* The controls of a tab are rendered only while it is the active tab.
Rendered(tab) == imageRef /\ activeTab = tab

\* The control panels in the document.
RenderedPanels == {t \in Tabs : activeTab = t}

\* A tab switch that remounts the panels and so loses the export format.
SetActiveTabResetting(tab) ==
    /\ imageRef
    /\ activeTab' = tab
    /\ exportFormat' = "png"
    /\ UNCHANGED <<toggleVars, styleVars, exportQuality, flipVars, refVars,
                   outputVars, asyncVars, browserVars, sourceVars, aspectRatio,
                   image, selection>>

SetActiveTab(tab) ==
    /\ imageRef
    /\ activeTab' = tab
    /\ UNCHANGED <<toggleVars, styleVars, exportVars, flipVars, refVars,
                   outputVars, asyncVars, browserVars, sourceVars, aspectRatio,
                   image, selection>>

SetShowShade(b) ==
    /\ Rendered("basic")
    /\ showShade' = b
    /\ UNCHANGED <<canvasBackground, canvasDisabled, showGrid, showCrosshair,
                   movable, resizable, zoomable, styleVars, exportVars, flipVars,
                   refVars, outputVars, asyncVars, browserVars, sourceVars,
                   aspectRatio, activeTab, image, selection>>

SetShowGrid(b) ==
    /\ Rendered("basic")
    /\ showGrid' = b
    /\ UNCHANGED <<canvasBackground, canvasDisabled, showShade, showCrosshair,
                   movable, resizable, zoomable, styleVars, exportVars, flipVars,
                   refVars, outputVars, asyncVars, browserVars, sourceVars,
                   aspectRatio, activeTab, image, selection>>

SetShowCrosshair(b) ==
    /\ Rendered("basic")
    /\ showCrosshair' = b
    /\ UNCHANGED <<canvasBackground, canvasDisabled, showShade, showGrid,
                   movable, resizable, zoomable, styleVars, exportVars, flipVars,
                   refVars, outputVars, asyncVars, browserVars, sourceVars,
                   aspectRatio, activeTab, image, selection>>

\* The Aspect Ratio select: setAspectRatio(Number(e.target.value)).
SetAspectRatio(r) ==
    /\ Rendered("basic")
    /\ aspectRatio' = Some(r)
    /\ UNCHANGED <<toggleVars, styleVars, exportVars, flipVars, refVars,
                   outputVars, asyncVars, browserVars, sourceVars, activeTab,
                   image, selection>>

SetThemeColor(c) ==
    /\ Rendered("basic")
    /\ themeColor' = c
    /\ UNCHANGED <<toggleVars, gridRows, gridColumns, exportVars, flipVars,
                   refVars, outputVars, asyncVars, browserVars, sourceVars,
                   aspectRatio, activeTab, image, selection>>

\* A copy-paste slip in the switch: 'banner' gets the ratio of 'thumbnail'.
PresetRatioSwapped(preset) ==
    CASE preset = "profile" -> <<1, 1>>
      [] preset = "banner" -> <<4, 3>>
      [] preset = "thumbnail" -> <<4, 3>>

PresetRatio(preset) ==
    CASE preset = "profile" -> <<1, 1>>
      [] preset = "banner" -> <<16, 9>>
      [] preset = "thumbnail" -> <<4, 3>>

applyPreset(preset) ==
    /\ Rendered("basic")
    /\ aspectRatio' = Some(PresetRatio(preset))
    /\ UNCHANGED <<toggleVars, styleVars, exportVars, flipVars, refVars,
                   outputVars, asyncVars, browserVars, sourceVars, activeTab,
                   image, selection>>

SetCanvasBackground(b) ==
    /\ Rendered("advanced")
    /\ canvasBackground' = b
    /\ UNCHANGED <<canvasDisabled, showShade, showGrid, showCrosshair,
                   movable, resizable, zoomable, styleVars, exportVars, flipVars,
                   refVars, outputVars, asyncVars, browserVars, sourceVars,
                   aspectRatio, activeTab, image, selection>>

SetCanvasDisabled(b) ==
    /\ Rendered("advanced")
    /\ canvasDisabled' = b
    /\ UNCHANGED <<canvasBackground, showShade, showGrid, showCrosshair,
                   movable, resizable, zoomable, styleVars, exportVars, flipVars,
                   refVars, outputVars, asyncVars, browserVars, sourceVars,
                   aspectRatio, activeTab, image, selection>>

SetMovable(b) ==
    /\ Rendered("advanced")
    /\ movable' = b
    /\ UNCHANGED <<canvasBackground, canvasDisabled, showShade, showGrid,
                   showCrosshair, resizable, zoomable, styleVars, exportVars,
                   flipVars, refVars, outputVars, asyncVars, browserVars,
                   sourceVars, aspectRatio, activeTab, image, selection>>

SetResizable(b) ==
    /\ Rendered("advanced")
    /\ resizable' = b
    /\ UNCHANGED <<canvasBackground, canvasDisabled, showShade, showGrid,
                   showCrosshair, movable, zoomable, styleVars, exportVars,
                   flipVars, refVars, outputVars, asyncVars, browserVars,
                   sourceVars, aspectRatio, activeTab, image, selection>>

SetZoomable(b) ==
    /\ Rendered("advanced")
    /\ zoomable' = b
    /\ UNCHANGED <<canvasBackground, canvasDisabled, showShade, showGrid,
                   showCrosshair, movable, resizable, styleVars, exportVars,
                   flipVars, refVars, outputVars, asyncVars, browserVars,
                   sourceVars, aspectRatio, activeTab, image, selection>>

SetGridRows(n) ==
    /\ Rendered("advanced")
    /\ gridRows' = n
    /\ UNCHANGED <<toggleVars, themeColor, gridColumns, exportVars, flipVars,
                   refVars, outputVars, asyncVars, browserVars, sourceVars,
                   aspectRatio, activeTab, image, selection>>

SetGridColumns(n) ==
    /\ Rendered("advanced")
    /\ gridColumns' = n
    /\ UNCHANGED <<toggleVars, themeColor, gridRows, exportVars, flipVars,
                   refVars, outputVars, asyncVars, browserVars, sourceVars,
                   aspectRatio, activeTab, image, selection>>

SetExportFormat(f) ==
    /\ Rendered("advanced")
    /\ exportFormat' = f
    /\ UNCHANGED <<toggleVars, styleVars, exportQuality, flipVars, refVars,
                   outputVars, asyncVars, browserVars, sourceVars, aspectRatio,
                   activeTab, image, selection>>

\* The Quality slider is rendered only for a format other than PNG.
SetExportQuality(q) ==
    /\ Rendered("advanced")
    /\ exportFormat # "png"
    /\ exportQuality' = q
    /\ UNCHANGED <<toggleVars, styleVars, exportFormat, flipVars, refVars,
                   outputVars, asyncVars, browserVars, sourceVars, aspectRatio,
                   activeTab, image, selection>>

NextUI ==
    \/ Mount
    \/ \E tab \in Tabs : SetActiveTab(tab)
    \/ \E b \in BOOLEAN : SetShowShade(b)
    \/ \E b \in BOOLEAN : SetShowGrid(b)
    \/ \E b \in BOOLEAN : SetShowCrosshair(b)
    \/ \E r \in AspectRatioOptions : SetAspectRatio(r)
    \/ \E c \in ThemeColorInputs : SetThemeColor(c)
    \/ \E preset \in Presets : applyPreset(preset)
    \/ \E b \in BOOLEAN : SetCanvasBackground(b)
    \/ \E b \in BOOLEAN : SetCanvasDisabled(b)
    \/ \E b \in BOOLEAN : SetMovable(b)
    \/ \E b \in BOOLEAN : SetResizable(b)
    \/ \E b \in BOOLEAN : SetZoomable(b)
    \/ \E n \in GridInputs : SetGridRows(n)
    \/ \E n \in GridInputs : SetGridColumns(n)
    \/ \E f \in ExportFormats : SetExportFormat(f)
    \/ \E q \in QualityInputs : SetExportQuality(q)

SpecUI == Init /\ [][NextUI]_vars

\* --------------------------------------------------------- transformations

handleRotate(degrees) ==
    /\ Rendered("transform")
    /\ image' = IF imageRef
                THEN [image EXCEPT !.rotate = (@ + degrees) % 360]
                ELSE image
    /\ UNCHANGED <<toggleVars, styleVars, exportVars, flipVars, refVars,
                   outputVars, asyncVars, browserVars, sourceVars, aspectRatio,
                   activeTab, selection>>

\* setScaleX(scaleX * -1); the render that follows runs the [scaleX] effect.
handleFlipHorizontal ==
    /\ Rendered("transform")
    /\ scaleX' = scaleX * (0 - 1)
    /\ image' = IF imageRef THEN EffectScaleX(image, scaleY) ELSE image
    /\ UNCHANGED <<toggleVars, styleVars, exportVars, scaleY, refVars,
                   outputVars, asyncVars, browserVars, sourceVars, aspectRatio,
                   activeTab, selection>>

\* setScaleY(scaleY * -1); the render that follows runs the [scaleY] effect.
handleFlipVertical ==
    /\ Rendered("transform")
    /\ scaleY' = scaleY * (0 - 1)
    /\ image' = IF imageRef THEN EffectScaleY(image, scaleX) ELSE image
    /\ UNCHANGED <<toggleVars, styleVars, exportVars, scaleX, refVars,
                   outputVars, asyncVars, browserVars, sourceVars, aspectRatio,
                   activeTab, selection>>

\* image.$zoom(0.1) / image.$zoom(-0.1): the zooms in each direction are counted.
handleZoom(delta) ==
    /\ Rendered("transform")
    /\ IF delta > 0 THEN image.zoomIn < MaxZoom ELSE image.zoomOut < MaxZoom
    /\ image' = IF ~imageRef THEN image
                ELSE IF delta > 0 THEN [image EXCEPT !.zoomIn = @ + 1]
                ELSE [image EXCEPT !.zoomOut = @ + 1]
    /\ UNCHANGED <<toggleVars, styleVars, exportVars, flipVars, refVars,
                   outputVars, asyncVars, browserVars, sourceVars, aspectRatio,
                   activeTab, selection>>

\* image.$resetTransform(): the image's transform becomes the identity.
handleResetTransformations ==
    /\ Rendered("transform")
    /\ image' = IF imageRef
                THEN [scaleX |-> 1, scaleY |-> 1, rotate |-> 0,
                      zoomIn |-> 0, zoomOut |-> 0]
                ELSE image
    /\ UNCHANGED <<toggleVars, styleVars, exportVars, flipVars, refVars,
                   outputVars, asyncVars, browserVars, sourceVars, aspectRatio,
                   activeTab, selection>>

NextTransform ==
    \/ Mount
    \/ \E tab \in Tabs : SetActiveTab(tab)
    \/ \E degrees \in RotateDegrees : handleRotate(degrees)
    \/ handleFlipHorizontal
    \/ handleFlipVertical
    \/ \E delta \in ZoomDeltas : handleZoom(delta)
    \/ handleResetTransformations

SpecTransform == Init /\ [][NextTransform]_vars

\* ------------------------------------------------------- crop and preview

\* The pointer or the keyboard changes the selection element.
MoveSelection(r) ==
    /\ imageRef
    /\ r # selection
    /\ selection' = r
    /\ UNCHANGED <<toggleVars, styleVars, exportVars, flipVars, refVars,
                   outputVars, asyncVars, browserVars, sourceVars, aspectRatio,
                   activeTab, image>>

\* A preview that renders the rectangle of the previous onCrop call.
updateLivePreviewStale ==
    IF selectionRef
    THEN Append(pendingPreview, IF cropData = Null THEN Rect(0)
                                ELSE [x |-> 10 * cropData[1].x,
                                      y |-> 10 * cropData[1].y,
                                      width |-> 10 * cropData[1].width,
                                      height |-> 10 * cropData[1].height])
    ELSE pendingPreview

\* updateLivePreview up to its await: selection.$toCanvas() of the selection
\* as it is now, when the ref holds the element.
updateLivePreview ==
    IF selectionRef THEN Append(pendingPreview, selection) ELSE pendingPreview

\* onCrop: it starts updateLivePreview without awaiting it, then stores the
\* rounded rectangle.
onCrop ==
    /\ selectionRef => Len(pendingPreview) < MaxPending
    /\ pendingPreview' = updateLivePreview
    /\ cropData' = IF selectionRef THEN Some(RoundRect(selection)) ELSE cropData
    /\ UNCHANGED <<toggleVars, styleVars, exportVars, flipVars, refVars,
                   croppedImage, livePreview, pendingResult, pendingReads,
                   pendingDownload, browserVars, sourceVars, aspectRatio,
                   activeTab, image, selection>>

\* <CropperSelection onChange={onCrop}>: the element reports a change, which
\* it can do as soon as it is connected, the ref attached or not.
SelectionChange == onCrop

\* The Actions tab's "Log Data (Console)" button.
LogDataClick == Rendered("actions") /\ onCrop

\* The rest of updateLivePreview: setLivePreview(canvas.toDataURL()).
PreviewResolve(i) ==
    /\ i \in 1..Len(pendingPreview)
    /\ livePreview' = Some(ToDataURL(pendingPreview[i], "png", 100))
    /\ pendingPreview' = RemoveAt(pendingPreview, i)
    /\ UNCHANGED <<toggleVars, styleVars, exportVars, flipVars, refVars,
                   croppedImage, cropData, pendingResult, pendingReads,
                   pendingDownload, browserVars, sourceVars, aspectRatio,
                   activeTab, image, selection>>

\* $toCanvas rejects: updateLivePreview's promise rejects and nobody holds it.
PreviewReject(i) ==
    /\ i \in 1..Len(pendingPreview)
    /\ pendingPreview' = RemoveAt(pendingPreview, i)
    /\ unhandledRejections' = unhandledRejections \cup {"updateLivePreview"}
    /\ UNCHANGED <<toggleVars, styleVars, exportVars, flipVars, refVars,
                   outputVars, pendingResult, pendingReads, pendingDownload,
                   downloads, consoleErrors, resourceVars, sourceVars,
                   aspectRatio, activeTab, image, selection>>

\* handleGetResult up to its await; the closure keeps the render's
\* exportFormat and exportQuality.
handleGetResult ==
    /\ Rendered("actions")
    /\ selectionRef => Len(pendingResult) < MaxExports
    /\ pendingResult' =
           IF selectionRef
           THEN Append(pendingResult,
                       [canvas |-> selection, exportFormat |-> exportFormat,
                        exportQuality |-> exportQuality])
           ELSE pendingResult
    /\ UNCHANGED <<toggleVars, styleVars, exportVars, flipVars, refVars,
                   outputVars, pendingPreview, pendingReads, pendingDownload,
                   browserVars, sourceVars, aspectRatio, activeTab, image,
                   selection>>

\* The rest of handleGetResult: canvas.toDataURL(`image/${exportFormat}`,
\* exportQuality), then setCroppedImage.
ResultResolve(i) ==
    /\ i \in 1..Len(pendingResult)
    /\ croppedImage' = Some(ToDataURL(pendingResult[i].canvas,
                                      pendingResult[i].exportFormat,
                                      pendingResult[i].exportQuality))
    /\ pendingResult' = RemoveAt(pendingResult, i)
    /\ UNCHANGED <<toggleVars, styleVars, exportVars, flipVars, refVars,
                   livePreview, cropData, pendingPreview, pendingReads,
                   pendingDownload, browserVars, sourceVars, aspectRatio,
                   activeTab, image, selection>>

\* $toCanvas rejects: the click handler's promise rejects and nobody holds it.
ResultReject(i) ==
    /\ i \in 1..Len(pendingResult)
    /\ pendingResult' = RemoveAt(pendingResult, i)
    /\ unhandledRejections' = unhandledRejections \cup {"handleGetResult"}
    /\ UNCHANGED <<toggleVars, styleVars, exportVars, flipVars, refVars,
                   outputVars, pendingPreview, pendingReads, pendingDownload,
                   downloads, consoleErrors, resourceVars, sourceVars,
                   aspectRatio, activeTab, image, selection>>

\* ----------------------------------------------------------------- download

\* "Download Image" is rendered only with a live preview; downloadImage
\* returns at once without one, else it starts fetch(livePreview).
downloadImage ==
    /\ imageRef
    /\ livePreview # Null
    /\ Len(pendingDownload) < MaxExports
    /\ pendingDownload' =
           Append(pendingDownload,
                  [href |-> livePreview[1], exportFormat |-> exportFormat,
                   step |-> "fetch"])
    /\ UNCHANGED <<toggleVars, styleVars, exportVars, flipVars, refVars,
                   outputVars, pendingPreview, pendingResult, pendingReads,
                   browserVars, sourceVars, aspectRatio, activeTab, image,
                   selection>>

\* fetch resolves: response.blob() starts.
DownloadFetchResolve(i) ==
    /\ i \in 1..Len(pendingDownload)
    /\ pendingDownload[i].step = "fetch"
    /\ pendingDownload' = [pendingDownload EXCEPT ![i].step = "blob"]
    /\ UNCHANGED <<toggleVars, styleVars, exportVars, flipVars, refVars,
                   outputVars, pendingPreview, pendingResult, pendingReads,
                   browserVars, sourceVars, aspectRatio, activeTab, image,
                   selection>>

\* fetch or response.blob() rejects: the catch block logs the error.
DownloadReject(i) ==
    /\ i \in 1..Len(pendingDownload)
    /\ pendingDownload' = RemoveAt(pendingDownload, i)
    /\ consoleErrors' = consoleErrors \cup {"Error downloading image:"}
    /\ UNCHANGED <<toggleVars, styleVars, exportVars, flipVars, refVars,
                   outputVars, pendingPreview, pendingResult, pendingReads,
                   downloads, unhandledRejections, resourceVars, sourceVars,
                   aspectRatio, activeTab, image, selection>>

\* The file the anchor click saves: the blob holds the bytes of the data URL,
\* the name ends in the closure's exportFormat.
DownloadedFile(d) == [extension |-> d.exportFormat, encoding |-> d.href.type]

\* The synchronous calls of downloadImage after response.blob(), in order.
DownloadSteps ==
    <<"createObjectURL", "appendChild", "click", "removeChild", "revokeObjectURL">>

\* The position of a call in DownloadSteps.
StepIndex(step) == CHOOSE k \in 1..Len(DownloadSteps) : DownloadSteps[k] = step

\* n calls of DownloadSteps have returned: is the object URL live, is the
\* anchor in document.body, has the click saved the file.
URLLive(n) == n >= StepIndex("createObjectURL") /\ n < StepIndex("revokeObjectURL")
LinkInBody(n) == n >= StepIndex("appendChild") /\ n < StepIndex("removeChild")
Clicked(n) == n >= StepIndex("click")

\* response.blob() resolves: the object URL and the anchor are made, the
\* anchor is clicked and removed, the URL is revoked.
DownloadBlobResolve(i) ==
    /\ i \in 1..Len(pendingDownload)
    /\ pendingDownload[i].step = "blob"
    /\ downloads' = downloads \cup {DownloadedFile(pendingDownload[i])}
    /\ pendingDownload' = RemoveAt(pendingDownload, i)
    /\ objectURLs' = objectURLs + (IF URLLive(Len(DownloadSteps)) THEN 1 ELSE 0)
    /\ bodyLinks' = bodyLinks + (IF LinkInBody(Len(DownloadSteps)) THEN 1 ELSE 0)
    /\ UNCHANGED <<toggleVars, styleVars, exportVars, flipVars, refVars,
                   outputVars, pendingPreview, pendingResult, pendingReads,
                   consoleErrors, unhandledRejections, sourceVars, aspectRatio,
                   activeTab, image, selection>>

\* response.blob() resolves and the call `step` throws: the calls before it
\* have taken effect, the catch block logs the error and the function ends.
DownloadThrow(i, step) ==
    /\ i \in 1..Len(pendingDownload)
    /\ pendingDownload[i].step = "blob"
    /\ objectURLs < MaxLeaks
    /\ downloads' = IF Clicked(StepIndex(step) - 1)
                    THEN downloads \cup {DownloadedFile(pendingDownload[i])}
                    ELSE downloads
    /\ objectURLs' = objectURLs + (IF URLLive(StepIndex(step) - 1) THEN 1 ELSE 0)
    /\ bodyLinks' = bodyLinks + (IF LinkInBody(StepIndex(step) - 1) THEN 1 ELSE 0)
    /\ consoleErrors' = consoleErrors \cup {"Error downloading image:"}
    /\ pendingDownload' = RemoveAt(pendingDownload, i)
    /\ UNCHANGED <<toggleVars, styleVars, exportVars, flipVars, refVars,
                   outputVars, pendingPreview, pendingResult, pendingReads,
                   unhandledRejections, sourceVars, aspectRatio, activeTab,
                   image, selection>>

\* ------------------------------------------------------------- image source

\* The user's choice once the read at position i is over, with the source
\* `loaded` when it produced one.
ChoiceAfterRead(i, loaded) ==
    IF i > chosenSrc.older
    THEN IF loaded = Null THEN chosenSrc
         ELSE [src |-> loaded[1], older |-> i - 1]
    ELSE [chosenSrc EXCEPT !.older = @ - 1]

\* "Image 2" wired to image1.
ClickImageFirst(src) ==
    /\ Rendered("basic")
    /\ imgSrc' = image1
    /\ chosenSrc' = [src |-> src, older |-> Len(pendingReads)]
    /\ UNCHANGED <<toggleVars, styleVars, exportVars, flipVars, refVars,
                   outputVars, asyncVars, browserVars, aspectRatio, activeTab,
                   image, selection>>

\* The "Image 1" and "Image 2" buttons: setImgSrc(image).
ClickImage(src) ==
    /\ Rendered("basic")
    /\ imgSrc' = src
    /\ chosenSrc' = [src |-> src, older |-> Len(pendingReads)]
    /\ UNCHANGED <<toggleVars, styleVars, exportVars, flipVars, refVars,
                   outputVars, asyncVars, browserVars, aspectRatio, activeTab,
                   image, selection>>

\* handleFileUpload with e.target.files = files: a read starts for files[0].
handleFileUpload(files) ==
    /\ Rendered("basic")
    /\ files # <<>> => Len(pendingReads) < MaxPending
    /\ pendingReads' = IF files # <<>> THEN Append(pendingReads, files[1])
                       ELSE pendingReads
    /\ UNCHANGED <<toggleVars, styleVars, exportVars, flipVars, refVars,
                   outputVars, pendingPreview, pendingResult, pendingDownload,
                   browserVars, sourceVars, aspectRatio, activeTab, image,
                   selection>>

\* reader.onload with event.target.result of type `result`.
ReadLoad(i, result) ==
    /\ i \in 1..Len(pendingReads)
    /\ imgSrc' = IF result = "string" THEN FileDataURL(pendingReads[i])
                 ELSE imgSrc
    /\ chosenSrc' = ChoiceAfterRead(i, IF result = "string"
                                       THEN Some(FileDataURL(pendingReads[i]))
                                       ELSE Null)
    /\ pendingReads' = RemoveAt(pendingReads, i)
    /\ UNCHANGED <<toggleVars, styleVars, exportVars, flipVars, refVars,
                   outputVars, pendingPreview, pendingResult, pendingDownload,
                   browserVars, aspectRatio, activeTab, image, selection>>

\* The read fails: the reader has no onerror handler and onload never runs.
ReadError(i) ==
    /\ i \in 1..Len(pendingReads)
    /\ pendingReads' = RemoveAt(pendingReads, i)
    /\ chosenSrc' = ChoiceAfterRead(i, Null)
    /\ UNCHANGED <<toggleVars, styleVars, exportVars, flipVars, refVars,
                   outputVars, pendingPreview, pendingResult, pendingDownload,
                   browserVars, imgSrc, aspectRatio, activeTab, image,
                   selection>>

\* ----------------------------------------------------------- specifications

NextPreview ==
    \/ Mount
    \/ \E tab \in Tabs : SetActiveTab(tab)
    \/ \E r \in SelectionRects : MoveSelection(r)
    \/ SelectionChange
    \/ LogDataClick
    \/ \E i \in 1..MaxPending : PreviewResolve(i)
    \/ \E i \in 1..MaxPending : PreviewReject(i)

SpecPreview == Init /\ [][NextPreview]_vars

NextErrors ==
    \/ Mount
    \/ \E tab \in Tabs : SetActiveTab(tab)
    \/ SelectionChange
    \/ \E i \in 1..MaxPending : PreviewResolve(i)
    \/ \E i \in 1..MaxPending : PreviewReject(i)
    \/ handleGetResult
    \/ \E i \in 1..MaxExports : ResultResolve(i)
    \/ \E i \in 1..MaxExports : ResultReject(i)
    \/ downloadImage
    \/ \E i \in 1..MaxExports : DownloadFetchResolve(i)
    \/ \E i \in 1..MaxExports : DownloadReject(i)
    \/ \E i \in 1..MaxExports : DownloadBlobResolve(i)
    \/ \E i \in 1..MaxExports, k \in 1..Len(DownloadSteps) :
           DownloadThrow(i, DownloadSteps[k])

SpecErrors == Init /\ [][NextErrors]_vars

NextResult ==
    \/ Mount
    \/ \E tab \in Tabs : SetActiveTab(tab)
    \/ \E r \in SelectionRects : MoveSelection(r)
    \/ \E f \in ExportFormats : SetExportFormat(f)
    \/ \E q \in QualityInputs : SetExportQuality(q)
    \/ handleGetResult
    \/ \E i \in 1..MaxExports : ResultResolve(i)
    \/ \E i \in 1..MaxExports : ResultReject(i)

SpecResult == Init /\ [][NextResult]_vars

NextDownload ==
    \/ Mount
    \/ \E tab \in Tabs : SetActiveTab(tab)
    \/ SelectionChange
    \/ \E i \in 1..MaxPending : PreviewResolve(i)
    \/ \E f \in ExportFormats : SetExportFormat(f)
    \/ downloadImage
    \/ \E i \in 1..MaxExports : DownloadFetchResolve(i)
    \/ \E i \in 1..MaxExports : DownloadReject(i)
    \/ \E i \in 1..MaxExports : DownloadBlobResolve(i)
    \/ \E i \in 1..MaxExports, k \in 1..Len(DownloadSteps) :
           DownloadThrow(i, DownloadSteps[k])

SpecDownload == Init /\ [][NextDownload]_vars

NextSource ==
    \/ Mount
    \/ \E tab \in Tabs : SetActiveTab(tab)
    \/ \E src \in {image1, image2} : ClickImage(src)
    \/ \E files \in {<<>>} \cup {<<f>> : f \in Files} : handleFileUpload(files)
    \/ \E i \in 1..MaxPending, result \in ReadResults : ReadLoad(i, result)
    \/ \E i \in 1..MaxPending : ReadError(i)

SpecSource == Init /\ [][NextSource]_vars

\* ------------------------------------------------------------------ claims

\* C1: applyPreset('profile') sets aspectRatio to 1, 'banner' to 16/9 and
\* 'thumbnail' to 4/3, whatever it was before, and changes nothing else.
TheoremC1 ==
    [][\A preset \in Presets :
          applyPreset(preset) =>
              /\ preset = "profile" => aspectRatio' = Some(<<1, 1>>)
              /\ preset = "banner" => aspectRatio' = Some(<<16, 9>>)
              /\ preset = "thumbnail" => aspectRatio' = Some(<<4, 3>>)
              /\ UNCHANGED <<imgSrc, flipVars, toggleVars, styleVars, exportVars,
                             activeTab, outputVars, image, selection, asyncVars,
                             browserVars>>]_vars

\* A preset was applied over a ratio picked before, with other settings changed.
WitnessC1 ==
    /\ aspectRatio = Some(<<16, 9>>)
    /\ showShade
    /\ exportFormat = "webp"
    /\ activeTab = "basic"

\* C5: one click on Flip Horizontal multiplies the image's horizontal scale by
\* -1 and leaves the vertical scale alone; Flip Vertical does the converse.
ClaimC5 ==
    [][/\ handleFlipHorizontal =>
            (image'.scaleX = image.scaleX * (0 - 1) /\ image'.scaleY = image.scaleY)
       /\ handleFlipVertical =>
            (image'.scaleY = image.scaleY * (0 - 1) /\ image'.scaleX = image.scaleX)
      ]_vars

\* C6: once mounted, scaleX and scaleY are 1 or -1 and equal the sign of the
\* image's horizontal and vertical scale.
ClaimC6 ==
    imageRef =>
        /\ scaleX \in {1, 0 - 1}
        /\ scaleY \in {1, 0 - 1}
        /\ image.scaleX = scaleX
        /\ image.scaleY = scaleY

\* C7: activeTab starts as 'basic' and is always one of the four tabs; exactly
\* the active tab's panel is rendered; a tab click sets activeTab to that tab
\* and changes no other state, so no setting changes while tabs are switched.
TheoremC7 ==
    /\ activeTab = "basic"
    /\ [](activeTab \in Tabs /\ RenderedPanels = {activeTab}
            /\ Cardinality(RenderedPanels) = 1)
    /\ [][\A tab \in Tabs :
            SetActiveTab(tab) =>
                /\ activeTab' = tab
                /\ UNCHANGED <<imgSrc, flipVars, toggleVars, styleVars, exportVars,
                               aspectRatio, outputVars, image, selection,
                               asyncVars, browserVars>>]_vars
    /\ [][activeTab' # activeTab =>
            UNCHANGED <<toggleVars, styleVars, exportVars, aspectRatio>>]_vars

\* Settings were made on two tabs and the user is back on the first one.
WitnessC7 ==
    /\ activeTab = "basic"
    /\ showShade
    /\ aspectRatio = Some(<<3, 4>>)
    /\ themeColor = "#ff0000"
    /\ gridRows = GridDefault + 1
    /\ exportFormat = "jpeg"
    /\ exportQuality = 50

\* The integer n is a nearest integer to v tenths.
Nearest(v, n) == 10 * n - v \in (0 - 5)..5

OnCropCall == SelectionChange \/ LogDataClick

\* C2: every file "Download Image" saves is encoded in the format that its
\* filename extension names.
ClaimC2 == \A d \in downloads : d.encoding = d.extension

\* C3: a failure of an asynchronous step of updateLivePreview, handleGetResult
\* or downloadImage is caught and logged, no rejection is left unhandled, and
\* livePreview, croppedImage and cropData keep their values.
ClaimC3 ==
    [][(\E i \in 1..(MaxPending + MaxExports) :
            PreviewReject(i) \/ ResultReject(i) \/ DownloadReject(i)) =>
          /\ unhandledRejections' = {}
          /\ consoleErrors' # {}
          /\ UNCHANGED outputVars]_vars

\* C4: cropData is null at first; an onCrop call with the selection element
\* present sets it to the selection's x, y, width and height, each rounded to
\* a nearest integer; without the element onCrop leaves it alone; nothing
\* else changes it.
TheoremC4 ==
    /\ cropData = Null
    /\ [][/\ (OnCropCall /\ selectionRef) =>
                /\ cropData' # Null
                /\ Nearest(selection.x, cropData'[1].x)
                /\ Nearest(selection.y, cropData'[1].y)
                /\ Nearest(selection.width, cropData'[1].width)
                /\ Nearest(selection.height, cropData'[1].height)
          /\ (OnCropCall /\ ~selectionRef) => cropData' = cropData
          /\ cropData' # cropData => OnCropCall
         ]_vars

\* onCrop has stored the rounding of a selection with fractional coordinates.
WitnessC4 ==
    /\ selection = Rect(1)
    /\ cropData = Some([x |-> 1, y |-> 0, width |-> 4, height |-> 3])

\* The live preview shows the selection that cropData describes.
PreviewCurrent ==
    /\ livePreview # Null
    /\ cropData # Null
    /\ RoundRect(livePreview[1].content) = cropData[1]

\* C8 as claimed: once every conversion has completed (none having failed),
\* livePreview renders the selection of the last change event, the one
\* cropData describes, in whatever order the conversions completed.
ClaimC8 ==
    (pendingPreview = <<>> /\ unhandledRejections = {} /\ cropData # Null)
        => PreviewCurrent

\* C8 amended: livePreview is the PNG rendering of the conversion that
\* resolved last, whichever event started it; every onCrop call starts a
\* conversion of the selection it stores in cropData, and when that
\* conversion resolves the preview shows cropData's selection.
TheoremC8 ==
    [][/\ (OnCropCall /\ selectionRef) =>
             /\ cropData' # Null
             /\ Len(pendingPreview') = Len(pendingPreview) + 1
             /\ RoundRect(pendingPreview'[Len(pendingPreview')]) = cropData'[1]
       /\ \A i \in 1..Len(pendingPreview) :
             PreviewResolve(i) =>
                 /\ livePreview' = Some([content |-> pendingPreview[i],
                                         type |-> "png", quality |-> 100])
                 /\ (cropData # Null /\ RoundRect(pendingPreview[i]) = cropData[1])
                        => PreviewCurrent'
       /\ livePreview' # livePreview =>
             \E i \in 1..Len(pendingPreview) : PreviewResolve(i)
      ]_vars

\* Two conversions were in flight; the one started first resolved last and its
\* rendering replaced that of the newer selection.
WitnessC8 ==
    /\ pendingPreview = <<>>
    /\ unhandledRejections = {}
    /\ cropData = Some(RoundRect(Rect(1)))
    /\ livePreview = Some([content |-> Rect(0), type |-> "png", quality |-> 100])

\* C9: whenever a Cropped Result is shown, its download link's extension,
\* the current exportFormat, names the encoding of croppedImage.
ClaimC9 == croppedImage # Null => croppedImage[1].type = exportFormat

\* C10 as claimed: once all file reads have completed, imgSrc is the source
\* of the user's most recent choice (of those that produced a source).
ClaimC10 == pendingReads = <<>> => imgSrc = chosenSrc.src

\* C10 amended: imgSrc is the source written last.  A built-in image is
\* written at its click; a file's data URL is written when its read loads with
\* a string result, also when the user has made a newer choice since, which it
\* replaces; a click, and a load of a read started after the current choice,
\* leave imgSrc at the user's choice; a change event with no file, a
\* non-string result and a failed read leave imgSrc unchanged.
TheoremC10 ==
    [][/\ \A src \in {image1, image2} :
             ClickImage(src) => (imgSrc' = src /\ imgSrc' = chosenSrc'.src)
       /\ \A i \in 1..Len(pendingReads) :
             /\ ReadLoad(i, "string") =>
                    /\ imgSrc' = [kind |-> "data", name |-> pendingReads[i]]
                    /\ i > chosenSrc.older => imgSrc' = chosenSrc'.src
             /\ (ReadLoad(i, "other") \/ ReadError(i)) => imgSrc' = imgSrc
       /\ \A files \in {<<>>} \cup {<<f>> : f \in Files} :
             handleFileUpload(files) => imgSrc' = imgSrc
       /\ imgSrc' # imgSrc =>
             \/ \E src \in {image1, image2} : ClickImage(src)
             \/ \E i \in 1..Len(pendingReads) : ReadLoad(i, "string")
      ]_vars

\* A file was chosen, then "Image 2"; the file's read completed last and its
\* data URL replaced the later choice.
WitnessC10 ==
    /\ pendingReads = <<>>
    /\ chosenSrc.src = image2
    /\ imgSrc = [kind |-> "data", name |-> "fileA"]

\* C11: every object URL and temporary anchor that downloadImage creates is
\* released (the URL revoked, the anchor removed from document.body) by the
\* time the operation finishes, also when a call after the URL's creation
\* throws and the error is caught and logged; without a live preview it
\* creates none.
ClaimC11 ==
    /\ objectURLs = 0
    /\ bodyLinks = 0
    /\ livePreview = Null => pendingDownload = <<>>

====
